---- MODULE Spec2Model ----
(***************************************************************************)
(* Model of process_srt.py: the batch correction pipeline of SRT-Refiner.  *)
(*                                                                         *)
(* Spec      : a whole run of the script (module start-up, main, the       *)
(*             batch loop, the sleep after each batch, the final save).    *)
(* FairSpec  : Spec with weak fairness of the script's statements and of   *)
(*             the return of the backend call.                             *)
(* SpecBatch : process_batch_with_llm as a pure function of its target     *)
(*             texts and of the backend's outcome.                         *)
(*                                                                         *)
(* Sequences are 1-based here and 0-based in the source: position p of     *)
(* the source is element p + 1 of the model's sequences.                   *)
(***************************************************************************)
EXTENDS Integers, Sequences, FiniteSets, TLC

\* ------------------------------------------------------------------ bounds
MaxTotal == 3      \* most cues in an input file
MaxBatch == 2      \* largest configured BATCH_SIZE
MaxOverlap == 2    \* largest configured OVERLAP_SIZE
MaxResp == 2       \* most entries in one backend response of a run
MaxBatchResp == 3  \* most entries in the response of a single call (SpecBatch)

SLEEP_TIME == 5

Min(a, b) == IF a < b THEN a ELSE b
Max(a, b) == IF a > b THEN a ELSE b

\* ------------------------------------------------------------- input data
\* The text of the cue at source position p of the input file.
CueText(p) == <<"a", "b", "c", "d", "e", "f">>[p + 1]

\* The input files: n cues, 0 <= n <= MaxTotal.
InputFiles == { [p \in 1..n |-> CueText(p - 1)] : n \in 0..MaxTotal }

\* rules.json: absent (load_rules returns {}) or a flat mapping.
NoRules == << >>
RuleFiles == { "absent", "present" }

load_rules(file) ==
    IF file = "present" THEN << [k |-> "eh", v |-> ""] >> ELSE NoRules

\* -------------------------------------------------------- backend outcomes
\* Texts the backend writes into a text field.
BackendTexts == { "x", "y" }

\* A JSON value found under "id": an integer, a string, a boolean (idv 1 is
\* true, 0 is false), or nothing (no "id" key: item.get('id') is None).
IntId(v) == [idk |-> "int", idv |-> v]
StrId(v) == [idk |-> "str", idv |-> v]
BoolId(v) == [idk |-> "bool", idv |-> v]
NoId == [idk |-> "none", idv |-> 0]

\* One entry of the parsed response: an object with an id and possibly a
\* text field, or a bare value (a string, a number, null) that is no object.
Obj(id, has, text) == [obj |-> TRUE, id |-> id, has |-> has, text |-> text]
Bare == [obj |-> FALSE, id |-> NoId, has |-> FALSE, text |-> ""]

\* The entries a response to a batch of n lines is drawn from: integer ids
\* 0..n (n itself is out of range) with a text or without a text field, the
\* string "0", the booleans, a missing id, and a bare value.
Entries(n) ==
    { Obj(IntId(v), TRUE, t) : v \in 0..n, t \in BackendTexts }
    \cup { Obj(IntId(v), FALSE, "") : v \in 0..(n - 1) }
    \cup { Obj(StrId(0), TRUE, "y"), Obj(BoolId(1), TRUE, "y"),
           Obj(BoolId(0), TRUE, "y"), Obj(NoId, TRUE, "y"), Bare }

RECURSIVE SeqsUpTo(_, _)
SeqsUpTo(S, k) ==
    IF k = 0 THEN { << >> }
    ELSE LET shorter == SeqsUpTo(S, k - 1)
         IN shorter \cup { Append(s, e) : s \in { q \in shorter : Len(q) = k - 1 }, e \in S }

\* What one backend call can produce: the call raises ("raise"), the
\* response text is no JSON ("unparsable"), the JSON is a scalar that cannot
\* be iterated ("scalar"), or it is a list of entries ("list").
OutcomesUpTo(n, len) ==
    { [kind |-> k, items |-> << >>] : k \in { "raise", "unparsable", "scalar" } }
    \cup { [kind |-> "list", items |-> s] : s \in SeqsUpTo(Entries(n), len) }

\* The outcomes of a call made by a run, tabulated over the batch length.
OutcomesOf == [n \in 0..MaxTotal |-> OutcomesUpTo(n, MaxResp)]

Outcomes(n) == OutcomesOf[n]

\* ------------------------------------------------- process_batch_with_llm
\* The dict key of item.get('id'): Python's dict equality makes True the
\* key 1 and False the key 0; a string or None never equals an integer.
PyKey(id) ==
    IF id.idk \in { "int", "bool" } THEN [k |-> "num", v |-> id.idv]
    ELSE [k |-> id.idk, v |-> id.idv]

\* item.get('text', '')
ItemText(item) == IF item.has THEN item.text ELSE ""

\* The entries of results_json that end up under key i of result_map.
KeyHits(items, i) ==
    { k \in 1..Len(items) : PyKey(items[k].id) = [k |-> "num", v |-> i] }

\* i in result_map
InResultMap(items, i) == KeyHits(items, i) # {}

\* result_map[i]: a later entry overwrites an earlier one with an equal key.
ResultMapGet(items, i) ==
    LET last == CHOOSE k \in KeyHits(items, i) : \A m \in KeyHits(items, i) : m <= k
    IN ItemText(items[last])

\* Mutant of Raises: an entry that is no object is skipped, not fatal.
RaisesUnlessList(outcome) == outcome.kind # "list"

\* Lines 67-77 raise (and lines 93-96 catch) when the call raises, when
\* json.loads fails, when the JSON cannot be iterated, or when an entry has
\* no .get.
Raises(outcome) ==
    \/ outcome.kind # "list"
    \/ \E k \in 1..Len(outcome.items) : ~outcome.items[k].obj

\* Mutant of Reconcile: a missing identifier is skipped instead of being
\* filled from the original, so the later texts move up.
ReconcileDropsMissing(target_texts, items) ==
    LET positions == [j \in 1..Len(target_texts) |-> j]
        present == SelectSeq(positions, LAMBDA j : InResultMap(items, j - 1))
    IN [m \in 1..Len(present) |-> ResultMapGet(items, present[m] - 1)]

\* Mutant of Reconcile: the response is read by position, not by identifier.
ReconcilePositional(target_texts, items) ==
    [j \in 1..Len(target_texts) |->
        IF j <= Len(items) THEN ItemText(items[j]) ELSE target_texts[j]]

\* The list built by lines 79-91, one entry per position of target_texts.
Reconcile(target_texts, items) ==
    [j \in 1..Len(target_texts) |->
        IF InResultMap(items, j - 1) THEN ResultMapGet(items, j - 1)
        ELSE target_texts[j]]

\* The positions line 88 warns about, one entry per warning printed, in the
\* order of the loop of line 80.
Warned(target_texts, items) ==
    SelectSeq([j \in 1..Len(target_texts) |-> j - 1],
              LAMBDA p : ~InResultMap(items, p))

\* Mutant of process_batch_with_llm: the except branch returns blank lines.
process_batch_blank_on_error(target_texts, outcome) ==
    IF Raises(outcome)
    THEN [fixed |-> [j \in 1..Len(target_texts) |-> ""], failed |-> TRUE,
          warned |-> << >>, errors |-> 1]
    ELSE [fixed |-> Reconcile(target_texts, outcome.items), failed |-> FALSE,
          warned |-> Warned(target_texts, outcome.items), errors |-> 0]

\* The function: its return value, whether the except branch ran, the
\* warnings printed by line 88 and the error messages printed by line 94.
process_batch_with_llm(target_texts, outcome) ==
    IF Raises(outcome)
    THEN [fixed |-> target_texts, failed |-> TRUE, warned |-> << >>, errors |-> 1]
    ELSE [fixed |-> Reconcile(target_texts, outcome.items), failed |-> FALSE,
          warned |-> Warned(target_texts, outcome.items), errors |-> 0]

\* What one call of process_batch_with_llm can hand back to main for a
\* batch: the kind of the backend's outcome and the function's result, over
\* every outcome of the backend.
Returns(target_texts) ==
    { [kind |-> o.kind, ret |-> process_batch_with_llm(target_texts, o)] :
        o \in Outcomes(Len(target_texts)) }

\* Returns, tabulated over the slices of the input files.
ReturnsOf ==
    [t \in UNION { { SubSeq(f, a, b) : a \in 1..(Len(f) + 1), b \in 0..Len(f) } : f \in InputFiles }
        |-> Returns(t)]

\* ----------------------------------------------------------------- state
VARIABLES
    pc,                   \* where the script is
    API_KEY,              \* TRUE iff GEMINI_API_KEY is set
    input_exists,         \* TRUE iff the input file exists
    input_file,           \* the cues' texts in the input file
    rules_file,           \* rules.json on disk
    BATCH_SIZE,
    OVERLAP_SIZE,
    orig,                 \* the texts as loaded (history)
    subs,                 \* the cues' texts, overwritten in place
    rules,
    total,
    i,                    \* the loop variable of line 123
    target_texts,
    context_texts,        \* the context passed to the last call (history)
    fixed_texts,
    failed,               \* the last call took the except branch (history)
    outcome_kind,         \* what the last backend call produced (history)
    previous_fixed_lines,
    calls,                \* the backend calls made so far (history)
    written,              \* number of batches written back (history)
    slept,                \* seconds slept so far (history)
    output,               \* the saved files, in order (history)
    reported,             \* the fatal errors reported, in order (history)
    touched,              \* the accesses to the input and rule files (history)
    call                  \* one application of process_batch_with_llm (SpecBatch)

vars == << pc, API_KEY, input_exists, input_file, rules_file, BATCH_SIZE,
           OVERLAP_SIZE, orig, subs, rules, total, i, target_texts,
           context_texts, fixed_texts, failed, outcome_kind,
           previous_fixed_lines, calls, written, slept, output, reported,
           touched, call >>

env == << API_KEY, input_exists, input_file, rules_file, BATCH_SIZE, OVERLAP_SIZE >>

log == << reported, touched >>

NoCall == [state |-> "none", target_texts |-> << >>,
           outcome |-> [kind |-> "raise", items |-> << >>],
           ret |-> [fixed |-> << >>, failed |-> FALSE, warned |-> << >>, errors |-> 0]]

\* Mutant of Slice: the end index is taken inclusive.
SliceInclusive(seq, a, b) == SubSeq(seq, a + 1, Min(b + 1, Len(seq)))

\* Python's seq[a:b] for 0 <= a, b.
Slice(seq, a, b) == SubSeq(seq, a + 1, Min(b, Len(seq)))

\* Mutant of LastK: the first k entries are kept, as seq[:k].
FirstK(seq, k) ==
    IF k = 0 THEN seq
    ELSE SubSeq(seq, 1, Min(k, Len(seq)))

\* Python's seq[-k:] for k >= 0: -0 is 0, so seq[-0:] is the whole list.
LastK(seq, k) ==
    IF k = 0 THEN seq
    ELSE SubSeq(seq, Max(Len(seq) - k, 0) + 1, Len(seq))

Init ==
    /\ pc = "import"
    /\ API_KEY \in BOOLEAN
    /\ input_exists \in BOOLEAN
    /\ input_file \in InputFiles
    /\ rules_file \in RuleFiles
    /\ BATCH_SIZE \in 1..MaxBatch
    /\ OVERLAP_SIZE \in 0..MaxOverlap
    /\ orig = << >>
    /\ subs = << >>
    /\ rules = NoRules
    /\ total = 0
    /\ i = 0
    /\ target_texts = << >>
    /\ context_texts = << >>
    /\ fixed_texts = << >>
    /\ failed = FALSE
    /\ outcome_kind = "none"
    /\ previous_fixed_lines = << >>
    /\ calls = << >>
    /\ written = 0
    /\ slept = 0
    /\ output = << >>
    /\ reported = << >>
    /\ touched = << >>
    /\ call = NoCall

\* Mutant of ModuleInit: the credential is not checked at start-up.
ModuleInitUnchecked ==
    /\ pc = "import"
    /\ pc' = "main"
    /\ UNCHANGED << env, log, orig, subs, rules, total, i, target_texts, context_texts,
                    fixed_texts, failed, outcome_kind, previous_fixed_lines, calls, written,
                    slept, output, call >>

\* Lines 11-25: the module's start-up; without the credential it raises.
ModuleInit ==
    /\ pc = "import"
    /\ pc' = IF API_KEY THEN "main" ELSE "no_key"
    /\ reported' = IF API_KEY THEN reported ELSE Append(reported, "ValueError")
    /\ UNCHANGED << env, touched, orig, subs, rules, total, i, target_texts, context_texts,
                    fixed_texts, failed, outcome_kind, previous_fixed_lines, calls, written,
                    slept, output, call >>

\* Lines 99-121: main up to the loop; without the input file it returns.
MainOpen ==
    /\ pc = "main"
    /\ IF ~input_exists
       THEN /\ pc' = "no_file"
            /\ reported' = Append(reported, "input not found")
            /\ touched' = Append(touched, "input.exists")
            /\ UNCHANGED << orig, subs, rules, total >>
       ELSE /\ pc' = "loop"
            /\ touched' = touched \o << "input.exists", "rules.load", "input.open" >>
            /\ UNCHANGED reported
            /\ rules' = load_rules(rules_file)
            /\ subs' = input_file
            /\ orig' = input_file
            /\ total' = Len(input_file)
    /\ previous_fixed_lines' = << >>
    /\ i' = 0
    /\ UNCHANGED << env, target_texts, context_texts, fixed_texts, failed, outcome_kind,
                    calls, written, slept, output, call >>

\* Mutant of Call: a failed call leaves main with an empty rule table.
CallResetsRules(batch, r) ==
    /\ target_texts' = batch
    /\ context_texts' = previous_fixed_lines
    /\ fixed_texts' = r.ret.fixed
    /\ failed' = r.ret.failed
    /\ outcome_kind' = r.kind
    /\ calls' = Append(calls, [start |-> i, n |-> Len(batch), failed |-> r.ret.failed,
                               rules |-> rules, context |-> previous_fixed_lines,
                               fixed |-> r.ret.fixed])
    /\ rules' = IF r.ret.failed THEN NoRules ELSE rules
    /\ UNCHANGED << env, log, orig, subs, total, i, previous_fixed_lines,
                    written, slept, output, call >>

\* Lines 125-129 for one result r of the call: main's locals after the call,
\* and the record of the call: its batch, the rule table and the context the
\* request was built from, and what it returned.
Call(batch, r) ==
    /\ target_texts' = batch
    /\ context_texts' = previous_fixed_lines
    /\ fixed_texts' = r.ret.fixed
    /\ failed' = r.ret.failed
    /\ outcome_kind' = r.kind
    /\ calls' = Append(calls, [start |-> i, n |-> Len(batch), failed |-> r.ret.failed,
                               rules |-> rules, context |-> previous_fixed_lines,
                               fixed |-> r.ret.fixed])
    /\ UNCHANGED << env, log, orig, subs, rules, total, i, previous_fixed_lines,
                    written, slept, output, call >>

\* Mutant of CallBackend: a failure of the call is not caught and ends the run.
CallBackendPropagates ==
    /\ pc = "loop"
    /\ i < total
    /\ \E r \in ReturnsOf[Slice(subs, i, i + BATCH_SIZE)] :
          /\ Call(Slice(subs, i, i + BATCH_SIZE), r)
          /\ pc' = IF r.ret.failed THEN "aborted" ELSE "write"

\* Lines 123-129: the loop takes the next start index, slices the batch and
\* calls process_batch_with_llm, which makes one backend call.
CallBackend ==
    /\ pc = "loop"
    /\ i < total
    /\ \E r \in ReturnsOf[Slice(subs, i, i + BATCH_SIZE)] :
          Call(Slice(subs, i, i + BATCH_SIZE), r)
    /\ pc' = "write"

\* The step of CallBackend in which the backend call raises.
CallRaises ==
    /\ pc = "loop"
    /\ i < total
    /\ LET batch == Slice(subs, i, i + BATCH_SIZE)
           raise == [kind |-> "raise", items |-> << >>]
       IN Call(batch, [kind |-> "raise", ret |-> process_batch_with_llm(batch, raise)])
    /\ pc' = "write"

\* Mutant of WriteBack: entry j is written to position j of the file, not to
\* position j of the batch.
WriteBackFromStart ==
    /\ pc = "write"
    /\ subs' = [p \in 1..Len(subs) |->
                  IF p - 1 < Len(target_texts) /\ p - 1 < Len(fixed_texts)
                  THEN fixed_texts[p] ELSE subs[p]]
    /\ previous_fixed_lines' = LastK(fixed_texts, OVERLAP_SIZE)
    /\ written' = written + 1
    /\ pc' = "sleep"
    /\ UNCHANGED << env, log, orig, rules, total, i, target_texts, context_texts,
                    fixed_texts, failed, outcome_kind, calls, slept, output, call >>

\* Lines 131-135: the write-back and the next context.
WriteBack ==
    /\ pc = "write"
    /\ subs' = [p \in 1..Len(subs) |->
                  IF p - 1 >= i /\ p - 1 < i + Len(target_texts)
                     /\ p - 1 - i < Len(fixed_texts)
                  THEN fixed_texts[p - i] ELSE subs[p]]
    /\ previous_fixed_lines' = LastK(fixed_texts, OVERLAP_SIZE)
    /\ written' = written + 1
    /\ pc' = "sleep"
    /\ UNCHANGED << env, log, orig, rules, total, i, target_texts, context_texts,
                    fixed_texts, failed, outcome_kind, calls, slept, output, call >>

\* Mutant of Sleep: no delay after a batch whose call failed.
SleepOnlyAfterSuccess ==
    /\ pc = "sleep"
    /\ slept' = IF failed THEN slept ELSE slept + SLEEP_TIME
    /\ i' = i + BATCH_SIZE
    /\ pc' = "loop"
    /\ UNCHANGED << env, log, orig, subs, rules, total, target_texts, context_texts,
                    fixed_texts, failed, outcome_kind, previous_fixed_lines, calls,
                    written, output, call >>

\* Line 138, then the loop's step.
Sleep ==
    /\ pc = "sleep"
    /\ slept' = slept + SLEEP_TIME
    /\ i' = i + BATCH_SIZE
    /\ pc' = "loop"
    /\ UNCHANGED << env, log, orig, subs, rules, total, target_texts, context_texts,
                    fixed_texts, failed, outcome_kind, previous_fixed_lines, calls, written,
                    output, call >>

\* Mutant of Save: the file is saved without waiting for the loop to end.
SaveEarly ==
    /\ pc = "loop"
    /\ output' = Append(output, subs)
    /\ pc' = "done"
    /\ UNCHANGED << env, log, orig, subs, rules, total, i, target_texts, context_texts,
                    fixed_texts, failed, outcome_kind, previous_fixed_lines, calls,
                    written, slept, call >>

\* Lines 140-141: the loop is exhausted, the file is saved.
Save ==
    /\ pc = "loop"
    /\ i >= total
    /\ output' = Append(output, subs)
    /\ pc' = "done"
    /\ UNCHANGED << env, log, orig, subs, rules, total, i, target_texts, context_texts,
                    fixed_texts, failed, outcome_kind, previous_fixed_lines, calls, written,
                    slept, call >>

Next == ModuleInit \/ MainOpen \/ CallBackend \/ WriteBack \/ Sleep \/ Save

Spec == Init /\ [][Next]_vars

\* The script is one thread: a statement that can run does run.
Local == ModuleInit \/ MainOpen \/ WriteBack \/ Sleep \/ Save

\* The blocking backend call ends, by a response or by an exception. Every
\* CallBackend step leaves the loop head, where CallBackend and CallRaises
\* are enabled together, so weak fairness of CallRaises only says that a
\* pending call does not hang forever; it does not favour any outcome.
FairSpec == Spec /\ WF_vars(Local) /\ WF_vars(CallRaises)

\* ------------------------------------------------------------- SpecBatch
\* The batches process_batch_with_llm is applied to: 0..MaxBatch lines.
Batches == { [p \in 1..n |-> CueText(p - 1)] : n \in 0..MaxBatch }

InitBatch ==
    /\ pc = "batch"
    /\ API_KEY = TRUE
    /\ input_exists = TRUE
    /\ input_file = << >>
    /\ rules_file = "absent"
    /\ BATCH_SIZE = MaxBatch
    /\ OVERLAP_SIZE = 0
    /\ orig = << >>
    /\ subs = << >>
    /\ rules = NoRules
    /\ total = 0
    /\ i = 0
    /\ target_texts = << >>
    /\ context_texts = << >>
    /\ fixed_texts = << >>
    /\ failed = FALSE
    /\ outcome_kind = "none"
    /\ previous_fixed_lines = << >>
    /\ calls = << >>
    /\ written = 0
    /\ slept = 0
    /\ output = << >>
    /\ reported = << >>
    /\ touched = << >>
    /\ \E t \in Batches : \E o \in OutcomesUpTo(Len(t), MaxBatchResp) :
          call = [state |-> "called", target_texts |-> t, outcome |-> o,
                  ret |-> NoCall.ret]

\* Lines 34-96, from the call to the return.
BatchReturn ==
    /\ pc = "batch"
    /\ call.state = "called"
    /\ call' = [call EXCEPT !.state = "returned",
                            !.ret = process_batch_with_llm(call.target_texts, call.outcome)]
    /\ UNCHANGED << pc, env, log, orig, subs, rules, total, i, target_texts,
                    context_texts, fixed_texts, failed, outcome_kind, previous_fixed_lines,
                    calls, written, slept, output >>

NextBatch == BatchReturn

SpecBatch == InitBatch /\ [][NextBatch]_vars

\* ================================================================ claims
\* ceil(total / BATCH_SIZE)
NumBatches == (total + BATCH_SIZE - 1) \div BATCH_SIZE

InRun == pc \in { "loop", "write", "sleep", "done" }

\* The index ranges of the batches called so far, concatenated in order.
RECURSIVE ConcatRanges(_)
ConcatRanges(cs) ==
    IF cs = << >> THEN << >>
    ELSE ConcatRanges(SubSeq(cs, 1, Len(cs) - 1))
         \o [q \in 1..cs[Len(cs)].n |-> cs[Len(cs)].start + q - 1]

\* The entries of a response whose id is the JSON integer p.
Mine(items, p) == { k \in 1..Len(items) : items[k].obj /\ items[k].id = IntId(p) }

\* C1: whatever the backend's outcome, the list process_batch_with_llm
\* returns has as many entries as the batch, and the line sequence keeps
\* the length it had at load time through the whole run, down to the
\* saved file.
C1_LengthPreserved ==
    /\ pc \in { "write", "sleep" } => Len(fixed_texts) = Len(target_texts)
    /\ InRun => Len(subs) = Len(orig) /\ Len(subs) = Len(input_file)
    /\ pc = "done" => Len(output[1]) = Len(input_file)

C1_Witness ==
    /\ pc = "done"
    /\ Len(calls) >= 2
    /\ \E k \in 1..Len(calls) : calls[k].failed
    /\ \E p \in 1..Len(subs) : subs[p] # orig[p]
    /\ \E p \in 1..Len(subs) : subs[p] = orig[p]

\* C2: in a call that did not fail, a position whose identifier is absent
\* from the response keeps its original text, and a position whose
\* identifier is present (with a text) gets a text the backend returned
\* under that very identifier.
C2_MissingIdKeepsOriginal ==
    (call.state = "returned" /\ ~call.ret.failed
     /\ \E p \in 0..(Len(call.target_texts) - 1) : Mine(call.outcome.items, p) = {})
    => \A p \in 0..(Len(call.target_texts) - 1) :
          LET mine == Mine(call.outcome.items, p)
          IN /\ mine = {} => call.ret.fixed[p + 1] = call.target_texts[p + 1]
             /\ (mine # {} /\ \A k \in mine : call.outcome.items[k].has)
                  => call.ret.fixed[p + 1] \in { call.outcome.items[k].text : k \in mine }

\* C3: when the backend call raises or its response is no JSON, every
\* line of the batch equals its original text once the batch is written
\* back.
C3_FailureKeepsOriginal ==
    (pc = "sleep" /\ outcome_kind \in { "raise", "unparsable" })
    => \A p \in i..(i + Len(target_texts) - 1) : subs[p + 1] = orig[p + 1]

C3_Witness ==
    /\ pc = "sleep"
    /\ outcome_kind = "unparsable"
    /\ Len(calls) = 2
    /\ ~calls[1].failed
    /\ subs[1] # orig[1]
    /\ Len(target_texts) >= 1

\* A response with exactly one {id, text} object per identifier 0..n-1.
WellFormed(n, outcome) ==
    LET items == outcome.items
    IN
    /\ outcome.kind = "list"
    /\ Len(items) = n
    /\ \A k \in 1..n : items[k].obj /\ items[k].has /\ items[k].id.idk = "int"
    /\ \A p \in 0..(n - 1) : Cardinality(Mine(items, p)) = 1

\* C4: on a well-formed response with every identifier present, each
\* output line is the text returned for its identifier.
C4_WellFormedUsesBackendText ==
    (call.state = "returned" /\ WellFormed(Len(call.target_texts), call.outcome))
    => /\ ~call.ret.failed
       /\ \A p \in 0..(Len(call.target_texts) - 1) :
             \A k \in Mine(call.outcome.items, p) :
                call.ret.fixed[p + 1] = call.outcome.items[k].text

C4_Witness ==
    /\ call.state = "returned"
    /\ Len(call.target_texts) = 2
    /\ WellFormed(2, call.outcome)
    /\ call.outcome.items[1].id = IntId(1)
    /\ call.outcome.items[1].text # call.outcome.items[2].text
    /\ call.ret.fixed = << call.outcome.items[2].text, call.outcome.items[1].text >>

C6_BatchesPartition ==
    /\ \A k \in 1..Len(calls) :
          /\ calls[k].n >= 1
          /\ calls[k].n <= BATCH_SIZE
          /\ calls[k].start + calls[k].n <= total
          /\ k < Len(calls) => /\ calls[k].n = BATCH_SIZE
                               /\ calls[k + 1].start = calls[k].start + calls[k].n
    /\ Len(calls) >= 1 => calls[1].start = 0
    /\ pc = "done" => ConcatRanges(calls) = [q \in 1..total |-> q - 1]

C6_Witness ==
    /\ pc = "done"
    /\ total = 3
    /\ BATCH_SIZE = 2
    /\ Len(calls) = 2
    /\ calls[2].start = 2
    /\ calls[2].n = 1

\* C7: the context passed with a request has at most OVERLAP_SIZE entries
\* and is a tail of the preceding batch's reconciled output (empty for the
\* first batch).
C7_ContextBounded ==
    pc = "write"
    => /\ Len(context_texts) <= OVERLAP_SIZE
       /\ \E m \in 0..BATCH_SIZE :
             context_texts = LastK(Slice(subs, Max(i - BATCH_SIZE, 0), i), m)

\* C8: a run that passed the start-up checks never stops before the save;
\* whatever the outcomes, it processes every batch and reaches the state
\* where the complete output has been saved once.
C8_RunCompletes ==
    /\ [](InRun => /\ Len(output) <= 1
                   /\ (Len(output) = 1 <=> pc = "done")
                   /\ (pc = "done" => Len(calls) = NumBatches /\ written = NumBatches))
    /\ (pc = "loop") ~> (pc = "done" /\ Len(output) = 1 /\ Len(output[1]) = total
                         /\ written = NumBatches)

C8_Witness ==
    /\ pc = "done"
    /\ Len(output) = 1
    /\ \E k \in 1..(Len(calls) - 1) : calls[k].failed /\ ~calls[k + 1].failed
    /\ subs # orig

\* C9: one backend call per batch, in increasing start index with none
\* skipped; a call is made only when every earlier batch has been written
\* back; a finished run has made ceil(total / BATCH_SIZE) calls.
C9_CallsSequential ==
    /\ \A k \in 1..Len(calls) : calls[k].start = (k - 1) * BATCH_SIZE
    /\ pc = "write" => Len(calls) = written + 1
    /\ pc # "write" => Len(calls) = written
    /\ pc = "done" => Len(calls) = NumBatches

C9_Witness ==
    /\ pc = "done"
    /\ Len(calls) = 3
    /\ written = 3

\* C10: every completed batch, failed or not, is followed by one delay of
\* SLEEP_TIME before the next backend call.
C10_DelayAfterEachBatch ==
    /\ pc = "write" => slept = SLEEP_TIME * (Len(calls) - 1)
    /\ pc = "sleep" => slept = SLEEP_TIME * (written - 1)
    /\ pc \in { "loop", "done" } => slept = SLEEP_TIME * written

C10_Witness ==
    /\ pc = "write"
    /\ Len(calls) = 2
    /\ calls[1].failed
    /\ slept = SLEEP_TIME

\* C11: a fatal start-up condition is reported and nothing else happens.
\* Without the credential the script stops at module start-up with the
\* ValueError, before any access to the input file or to rules.json; with
\* the credential but without the input file, main reports the missing file
\* and returns after the existence test alone. In both cases no backend
\* call is made, no line is loaded or modified and no file is saved.
C11_FatalStartup ==
    /\ (~API_KEY /\ pc # "import") =>
          /\ pc = "no_key"
          /\ reported = << "ValueError" >>
          /\ touched = << >>
          /\ calls = << >> /\ subs = << >> /\ output = << >>
    /\ (API_KEY /\ ~input_exists /\ pc \notin { "import", "main" }) =>
          /\ pc = "no_file"
          /\ reported = << "input not found" >>
          /\ touched = << "input.exists" >>
          /\ rules = NoRules
          /\ calls = << >> /\ subs = << >> /\ output = << >>

\* The credential is missing although the input file and rules.json exist.
C11_Witness ==
    /\ pc = "no_key"
    /\ input_exists /\ Len(input_file) > 0 /\ rules_file = "present"
    /\ reported = << "ValueError" >>

\* C12: the write-back of the batch starting at index i, of n lines, sets
\* position i + j of the file to reconciled entry j for 0 <= j < n and leaves
\* the text of every other position as it was; the batch written is the one
\* whose turn it is (i = written * BATCH_SIZE), the positions from i on are
\* still the loaded ones, so each position is written by one batch only; and
\* no other step of the loop changes a line, so the context is never written
\* into a line.
C12_WriteBackAtOffset ==
    [][ /\ pc = "write" =>
              /\ i = written * BATCH_SIZE
              /\ written' = written + 1
              /\ Len(fixed_texts) = Len(target_texts)
              /\ \A p \in 1..Len(subs) : p > i => subs[p] = orig[p]
              /\ Len(subs') = Len(subs)
              /\ \A p \in 1..Len(subs) :
                    IF i < p /\ p <= i + Len(target_texts)
                    THEN subs'[p] = fixed_texts[p - i]
                    ELSE subs'[p] = subs[p]
        /\ pc \in { "loop", "sleep" } => subs' = subs /\ written' = written
      ]_vars

\* The second batch is written back at its own offset, after a first batch
\* whose lines were changed, with a context that differs from what is written.
C12_Witness ==
    /\ pc = "sleep" /\ written = 2 /\ i > 0
    /\ subs[1] # orig[1]
    /\ subs[i + 1] = fixed_texts[1] /\ subs[i + 1] # orig[i + 1]
    /\ context_texts # << >> /\ context_texts[1] # fixed_texts[1]

\* The number of warnings printed for position p.
WarningsFor(ret, p) == Cardinality({ k \in 1..Len(ret.warned) : ret.warned[k] = p })

\* C13: when the response is reconciled, one warning is printed for each
\* identifier of 0..n-1 that no entry of the response carries, none for an
\* identifier that an entry carries, and no error message; when the call
\* fails, one error message is printed and no warning.
C13_DiagnosticsMatchFallbacks ==
    call.state = "returned" =>
        IF call.ret.failed
        THEN call.ret.errors = 1 /\ call.ret.warned = << >>
        ELSE /\ call.ret.errors = 0
             /\ \A p \in 0..(Len(call.target_texts) - 1) :
                   WarningsFor(call.ret, p) =
                       IF Mine(call.outcome.items, p) = {} THEN 1 ELSE 0

\* C13 without boolean identifiers in the response.
C13_HoldsWithoutBooleanIds ==
    (\A k \in 1..Len(call.outcome.items) : call.outcome.items[k].id.idk # "bool")
        => C13_DiagnosticsMatchFallbacks

\* C14: rules.json is loaded once, before the first call, and the table is
\* never modified: during the whole run main's table is the loaded one, and
\* every request made so far was built from it, whatever the earlier calls
\* returned.
C14_RulesLoadedOnceAndShared ==
    /\ Cardinality({ k \in 1..Len(touched) : touched[k] = "rules.load" }) =
           (IF InRun THEN 1 ELSE 0)
    /\ ~InRun => calls = << >>
    /\ InRun =>
          /\ rules = load_rules(rules_file)
          /\ \A k \in 1..Len(calls) : calls[k].rules = load_rules(rules_file)

\* A run with a rule file in which a call failed and a later call did not.
C14_Witness ==
    /\ pc = "done" /\ rules_file = "present" /\ Len(calls) >= 2
    /\ calls[1].failed /\ ~calls[2].failed
    /\ calls[2].rules = load_rules("present") /\ calls[2].rules # NoRules

\* C15: the first request carries an empty context; for OVERLAP_SIZE >= 1
\* the request of every later batch carries, in order, the last
\* min(OVERLAP_SIZE, n) entries of what the call of the batch before, of n
\* lines, returned, and after a failed call these are the last entries of
\* that batch's original lines.
C15_ContextIsPreviousTail ==
    \A k \in 1..Len(calls) :
        IF k = 1 THEN calls[k].context = << >>
        ELSE OVERLAP_SIZE >= 1 =>
               LET prev == calls[k - 1]
                   m == Min(OVERLAP_SIZE, prev.n)
               IN /\ Len(prev.fixed) = prev.n
                  /\ calls[k].context = [q \in 1..m |-> prev.fixed[prev.n - m + q]]
                  /\ prev.failed =>
                        calls[k].context = [q \in 1..m |-> orig[prev.start + prev.n - m + q]]

\* After a failed first batch of two lines, with OVERLAP_SIZE = 1, the second
\* request carries the original second line.
C15_Witness ==
    /\ Len(calls) >= 2 /\ OVERLAP_SIZE = 1 /\ BATCH_SIZE = 2
    /\ calls[1].failed
    /\ calls[2].context = << orig[2] >>

\* Context after a corrected batch: the corrected tail is carried.
C15_WitnessCorrected ==
    /\ Len(calls) >= 2 /\ OVERLAP_SIZE = 1 /\ BATCH_SIZE = 2
    /\ ~calls[1].failed
    /\ calls[2].context = << calls[1].fixed[2] >> /\ calls[1].fixed[2] # orig[2]
    /\ calls[1].fixed[1] # calls[1].fixed[2]

\* C16: when some entry of the parsed response is no object, every line of
\* the returned batch is its original text, also the lines whose own entries
\* are well-formed objects; the call counts as failed and prints no warning.
C16_UnreadableEntryKeepsAll ==
    (/\ call.state = "returned"
     /\ call.outcome.kind = "list"
     /\ \E k \in 1..Len(call.outcome.items) : ~call.outcome.items[k].obj)
    => /\ call.ret.fixed = call.target_texts
       /\ call.ret.failed
       /\ call.ret.warned = << >>

\* A well-formed entry for line 0 followed by a bare value: line 0 keeps its
\* original text.
C16_Witness ==
    /\ call.state = "returned"
    /\ Len(call.target_texts) = 2
    /\ call.outcome.kind = "list"
    /\ call.outcome.items = << Obj(IntId(0), TRUE, "x"), Bare >>
    /\ call.ret.fixed = call.target_texts

\* An entry whose id is an integer position of a batch of n lines.
Recognised(n, item) == item.obj /\ item.id.idk = "int" /\ item.id.idv \in 0..(n - 1)

\* The response without the entries whose id is no position of the batch.
RecognisedOnly(n, items) == SelectSeq(items, LAMBDA item : Recognised(n, item))

\* C17: entries whose id is outside 0..n-1 or is no integer are ignored:
\* the reconciled output has n lines and is the one the response gives
\* without these entries, so a position whose integer id is absent keeps its
\* original text whatever such an entry carries.
C17_UnrecognisedIdsIgnored ==
    (call.state = "returned" /\ ~call.ret.failed) =>
        LET n == Len(call.target_texts)
            kept == RecognisedOnly(n, call.outcome.items)
        IN /\ Len(call.ret.fixed) = n
           /\ \A p \in 0..(n - 1) :
                 call.ret.fixed[p + 1] =
                     IF Mine(kept, p) = {} THEN call.target_texts[p + 1]
                     ELSE ResultMapGet(kept, p)

\* C17 without boolean identifiers in the response.
C17_HoldsWithoutBooleanIds ==
    (\A k \in 1..Len(call.outcome.items) : call.outcome.items[k].id.idk # "bool")
        => C17_UnrecognisedIdsIgnored

\* The response without the entries of integer id p that a later entry of
\* integer id p follows.
WithoutEarlier(items, p) ==
    LET keep == { k \in 1..Len(items) :
                    k \in Mine(items, p) => \A m \in Mine(items, p) : m <= k }
        idx == SelectSeq([k \in 1..Len(items) |-> k], LAMBDA k : k \in keep)
    IN [m \in 1..Len(idx) |-> items[idx[m]]]

\* C18: when several entries of the response carry the integer id p, line p
\* of the reconciled output is the text of the last of them in response
\* order, the output still has n lines, and every other line is what the
\* response gives without the earlier duplicates.
C18_LastDuplicateWins ==
    (call.state = "returned" /\ ~call.ret.failed) =>
        LET n == Len(call.target_texts)
            items == call.outcome.items
        IN \A p \in 0..(n - 1) :
             Cardinality(Mine(items, p)) >= 2 =>
                LET last == CHOOSE k \in Mine(items, p) : \A m \in Mine(items, p) : m <= k
                IN /\ Len(call.ret.fixed) = n
                   /\ items[last].has => call.ret.fixed[p + 1] = items[last].text
                   /\ \A q \in 0..(n - 1) :
                         q # p => call.ret.fixed[q + 1] =
                                    Reconcile(call.target_texts, WithoutEarlier(items, p))[q + 1]

\* C18 without boolean identifiers in the response.
C18_HoldsWithoutBooleanIds ==
    (\A k \in 1..Len(call.outcome.items) : call.outcome.items[k].id.idk # "bool")
        => C18_LastDuplicateWins

====
